---- MODULE Spec2Model ----
(***************************************************************************)
(* Model of the ulauncher GitHub pull-request extension:                   *)
(*   src/src/github.py  Github client (three-level fetch)                  *)
(*   src/src/utils.py   pr_is_approved, in_place_filter                    *)
(*   src/main.py        GithubController (cache, pipeline, item building)  *)
(*                      and the event listeners                            *)
(***************************************************************************)
EXTENDS Integers, Sequences, FiniteSets, TLC

VARIABLES
    github_controller,  \* GithubExtension.github_controller: NoController or
                        \*   [user, last_request, repos] (repos = github_client.repos)
    preferences,        \* GithubExtension.preferences (the user)
    subscribed,         \* KeywordQueryEventListener has been subscribed
    multiselect_urls,   \* GithubExtension.multiselect_urls
    multiselect_value,  \* CustomActionEvent.MULTISELECT.multiselect_value
    now,                \* the wall clock read by datetime.now()
    rendered,           \* items of the last RenderResultListAction
    call,               \* observation of the last build_pr_items call
    prev,               \* observation of the call before it
    fetch,              \* observation of the last Github.get_prs run
    pipe_reviews,       \* pipeline check: reviews payload of each record
    pipe_prs,           \* pipeline check: list handed to __order_filter_prs
    pipe_out,           \* pipeline check: its result, or NoOut
    items_in,           \* item check: arguments of a build_pr_items call
    items_out,          \* item check: what the call returned, or NoItems
    f_up,               \* one get_prs run: the upstream answers it meets
    f_pc,               \* one get_prs run: position of the main process
    f_started,          \*   number of __fetch_prs processes it has started
    f_joined,           \*   number of them it has joined
    fp,                 \* the __fetch_prs process of each repository
    bp,                 \* the __build_pr process of each pull request
    f_matrix,           \* result_matrix of get_prs, in insertion order
    f_inner,            \* result_matrix of each __fetch_prs, in insertion order
    f_result            \* the list get_prs returns

vars == <<github_controller, preferences, subscribed, multiselect_urls, multiselect_value,
          now, rendered, call, prev, fetch, pipe_reviews, pipe_prs, pipe_out,
          items_in, items_out,
          f_up, f_pc, f_started, f_joined, fp, bp, f_matrix, f_inner, f_result>>

ctlVars == <<github_controller, preferences, subscribed, multiselect_urls, multiselect_value,
             now, rendered, call, prev, fetch>>
pipeVars == <<pipe_reviews, pipe_prs, pipe_out>>
itemVars == <<items_in, items_out>>
fetchVars == <<f_up, f_pc, f_started, f_joined, fp, bp, f_matrix, f_inner, f_result>>

----------------------------------------------------------------------------
(* Bounds of the model *)

MaxPrs == 3          \* longest list handed to the pipeline check
MaxTicks == 2        \* the clock stops after this many ticks
Tick == 30           \* granularity of the clock, and how long a slow fetch takes
MaxSelected == 1     \* longest multiselect_urls

(* Program constants *)

TTL == 60            \* timedelta(minutes=1), in seconds
MinApproves == 2     \* len(pr.approves) >= 2

----------------------------------------------------------------------------
(* Sequences *)

Range(s) == {s[i] : i \in DOMAIN s}

\* list.sort(key=...): stable, ascending in the key. key[i] is the key of s[i].
Before(key, i, j) == key[i] < key[j] \/ (key[i] = key[j] /\ i < j)

StableSort(s, key) ==
    LET n == Len(s)
        pos(i) == 1 + Cardinality({j \in 1..n : Before(key, j, i)})
    IN  [p \in 1..n |-> s[CHOOSE i \in 1..n : pos(i) = p]]

\* s is a subsequence of t (same relative order)
RECURSIVE IsSubseq(_, _)
IsSubseq(s, t) ==
    IF s = <<>> THEN TRUE
    ELSE IF t = <<>> THEN FALSE
    ELSE IF Head(s) = Head(t) THEN IsSubseq(Tail(s), Tail(t))
    ELSE IsSubseq(s, Tail(t))

----------------------------------------------------------------------------
(* src/src/github.py: reviews -> approves, payload -> PullRequest *)

Review(state, login) == [state |-> state, login |-> login]

\* Github.__get_pr_approves: the logins of the APPROVED reviews, in order,
\* as a list (one entry per review).
get_pr_approves(reviews) ==
    LET approves == SelectSeq(reviews, LAMBDA r : r.state = "APPROVED")
    IN  [i \in DOMAIN approves |-> approves[i].login]

\* Github.__build_pr: the PullRequest dataclass built from a payload and the
\* reviews of that pull request.
build_pr(pr, reviews) ==
    [repo       |-> pr.repo_name,
     title      |-> pr.title,
     url        |-> pr.html_url,
     is_draft   |-> pr.draft,
     created_by |-> pr.login,
     created_at |-> pr.created_at,
     approves   |-> get_pr_approves(reviews)]

----------------------------------------------------------------------------
(* src/src/utils.py *)

\* Variant: more than two approvals are needed.
pr_is_approved_Strict(pr, user) ==
    Len(pr.approves) > MinApproves \/ user \in Range(pr.approves)

pr_is_approved(pr, user) ==
    Len(pr.approves) >= MinApproves \/ user \in Range(pr.approves)

----------------------------------------------------------------------------
(* Queries of the keyword event *)

\* The capital letters of the model's texts and their small letters
UpperCase == <<"A", "F", "P", "W">>
LowerCase == <<"a", "f", "p", "w">>

\* Case folding of re.IGNORECASE
Lower(c) ==
    IF \E i \in DOMAIN UpperCase : UpperCase[i] = c
    THEN LowerCase[CHOOSE i \in DOMAIN UpperCase : UpperCase[i] = c]
    ELSE c

\* The query is the pattern of re.search. Of the pattern syntax the model
\* has the plain characters, "." (any character) and "(" (opens a group).
\* re.compile raises re.error on a group that is not closed.
ReRaises(query) == \E k \in DOMAIN query : query[k] = "("

\* One pattern character against one character of the text, under
\* re.IGNORECASE
ReMatchChar(q, c) == q = "." \/ Lower(c) = Lower(q)

\* Variant: the pattern is matched at the start of the text only (re.match).
ReSearch_AtStart(query, text) ==
    /\ Len(query) <= Len(text)
    /\ \A k \in 1..Len(query) : ReMatchChar(query[k], text[k])

\* re.search(query, text, re.IGNORECASE), for a pattern that compiles: the
\* pattern matches somewhere in the text.
ReSearch(query, text) ==
    \E i \in 1..(Len(text) - Len(query) + 1) :
        \A k \in 1..Len(query) : ReMatchChar(query[k], text[i + k - 1])

\* The predicates the listeners and __order_filter_prs pass (the lambdas of
\* main.py), as values: which lambda, and what it closes over. Always is
\* the default predicate=None, under which every record is kept.
Always == [kind |-> "always", query |-> <<>>, urls |-> <<>>, user |-> ""]
Matches(query) == [Always EXCEPT !.kind = "matches", !.query = query]
NotSelected(urls) == [Always EXCEPT !.kind = "not_selected", !.urls = urls]
NotApproved(user) == [Always EXCEPT !.kind = "not_approved", !.user = user]

\* predicate(pr)
Holds(predicate, pr) ==
    CASE predicate.kind = "always" -> TRUE
      [] predicate.kind = "matches" ->
            ReSearch(predicate.query, pr.title) \/ ReSearch(predicate.query, pr.repo)
      [] predicate.kind = "not_selected" ->
            ~\E i \in DOMAIN predicate.urls : pr.url = predicate.urls[i]
      [] predicate.kind = "not_approved" -> ~pr_is_approved(pr, predicate.user)

\* predicate(pr) raises: the keyword lambda, on a pattern that does not compile
PredicateRaises(predicate) ==
    predicate.kind = "matches" /\ ReRaises(predicate.query)

----------------------------------------------------------------------------
(* src/src/utils.py *)

\* in_place_filter(array, predicate): the array is cut down to the elements
\* satisfying the predicate, the others are returned.
in_place_filter(array, predicate) ==
    [array   |-> SelectSeq(array, LAMBDA x : Holds(predicate, x)),
     removed |-> SelectSeq(array, LAMBDA x : ~Holds(predicate, x))]

----------------------------------------------------------------------------
(* src/main.py: GithubController.__order_filter_prs *)

\* Variant: drafts are kept.
drop_drafts_Keep(prs) == prs

drop_drafts(prs) == SelectSeq(prs, LAMBDA pr : ~pr.is_draft)

\* Variant: reverse=True left out, oldest first.
sort_created_at_Ascending(prs) ==
    StableSort(prs, [i \in DOMAIN prs |-> prs[i].created_at])

sort_created_at(prs) ==
    StableSort(prs, [i \in DOMAIN prs |-> 0 - prs[i].created_at])

sort_own_first(prs, user) ==
    StableSort(prs, [i \in DOMAIN prs |-> IF prs[i].created_by = user THEN 0 - 1 ELSE 0])

\* The sorted list before the partition (lines 192-194).
ordered_prs(prs, user) == sort_own_first(sort_created_at(drop_drafts(prs)), user)

\* Variant: the approved records are collected but not removed from prs.
order_filter_prs_KeepsApproved(prs, user) ==
    LET part == in_place_filter(ordered_prs(prs, user), NotApproved(user))
    IN  [open |-> ordered_prs(prs, user), approved |-> part.removed]

order_filter_prs(prs, user) ==
    LET part == in_place_filter(ordered_prs(prs, user), NotApproved(user))
    IN  [open |-> part.array, approved |-> part.removed]

----------------------------------------------------------------------------
(* src/src/github.py: Github.get_prs against one set of upstream answers *)

RepoUrls == {"r1", "r2"}

NoRepos == [kind |-> "none", items |-> <<>>]          \* self.repos = None
NoRequest == [set |-> FALSE, at |-> 0, open |-> <<>>, approved |-> <<>>]  \* last_request = None

Fail == [ok |-> FALSE, body |-> <<>>]
Ok(body) == [ok |-> TRUE, body |-> body]

\* What GET orgs/{org}/repos can answer: no answer (transport or JSON
\* failure), a JSON object instead of a list (an API error message), or the
\* list of repositories.
ReposResponses ==
    { Fail,
      Ok([kind |-> "object", items |-> <<>>]),
      Ok([kind |-> "list", items |-> <<"r1", "r2">>]) }

Payload(url, html, title, repo, draft, login, at, wellformed) ==
    [url |-> url, html_url |-> html, title |-> title, repo_name |-> repo,
     draft |-> draft, login |-> login, created_at |-> at, wellformed |-> wellformed]

P1 == Payload("p1", "h1", <<"F", "i", "x">>, <<"a", "p", "i">>, FALSE, "alice", 2, TRUE)
P2 == Payload("p2", "h2", <<"W", "i", "p">>, <<"w", "e", "b">>, TRUE, "alice", 1, TRUE)
P3 == Payload("p3", "h3", <<"A", "d", "d">>, <<"w", "e", "b">>, FALSE, "bob", 2, TRUE)
\* a payload with a field missing: __build_pr raises KeyError on it
P3Bad == [P3 EXCEPT !.wellformed = FALSE]

\* What GET {repo}/pulls can answer for each repository
PullsResponses(r) ==
    IF r = "r1" THEN {Fail, Ok(<<>>), Ok(<<P1>>)}
    ELSE {Ok(<<P2>>), Ok(<<P3>>), Ok(<<P3Bad>>)}

\* What GET {pr}/reviews can answer for each pull request
ReviewsResponses(u) ==
    IF u = "p1" THEN {Fail, Ok(<<>>)}
    ELSE IF u = "p2" THEN {Ok(<<Review("APPROVED", "bob"), Review("APPROVED", "carol")>>)}
    ELSE {Ok(<<>>), Ok(<<Review("APPROVED", "alice")>>)}

Perms(n) == {f \in [1..n -> 1..n] : \A i, j \in 1..n : f[i] = f[j] => i = j}

\* Github.__build_pr in its own process: writes shared_result[pr["url"]]
\* unless it raises (missing field, failed or malformed reviews answer).
build_pr_writes(pr, up) == pr.wellformed /\ up.reviews[pr.url].ok

\* Github.__fetch_prs in its own process. An exception in it ends the process
\* and leaves shared_result without an entry for the repository; a child
\* that raised leaves the inner dict without its pull request. The values of
\* the inner dict come in the order its children wrote them (up.inner).
fetch_prs(r, up) ==
    IF ~up.pulls[r].ok THEN [written |-> FALSE, value |-> <<>>]
    ELSE LET body == up.pulls[r].body
             arrived == [k \in DOMAIN body |-> body[up.inner[r][k]]]
             built == SelectSeq(arrived, LAMBDA pr : build_pr_writes(pr, up))
         IN  [written |-> TRUE,
              value |-> [k \in DOMAIN built |->
                           build_pr(built[k], up.reviews[built[k].url].body)]]

RECURSIVE Flatten(_)
Flatten(lists) ==
    IF lists = <<>> THEN <<>> ELSE Head(lists) \o Flatten(Tail(lists))

\* Github.get_prs. repos is self.repos before the call; up holds the upstream
\* answers, which Process.start of the main process raises (up.spawn_fail, 0
\* for none)
\* and the order in which the children write (up.outer, up.inner).
\* The result also tells whether the listing was requested (listing).
get_prs_body(listing, repos, up) ==
    LET listed  == IF listing /\ up.repos.ok THEN up.repos.body ELSE repos
        raised  == \/ listing /\ ~up.repos.ok
                   \/ listed.kind # "list"
                   \/ up.spawn_fail \in DOMAIN listed.items
        urls    == listed.items
        arrived == [k \in DOMAIN urls |-> fetch_prs(urls[up.outer[k]], up)]
        written == SelectSeq(arrived, LAMBDA e : e.written)
    IN  [raised |-> raised,
         repos  |-> listed,
         listing |-> listing,
         result |-> IF raised THEN <<>>
                    ELSE Flatten([k \in DOMAIN written |-> written[k].value])]

\* Variant: the listing is requested on every call.
get_prs_ListsAgain(repos, up) == get_prs_body(TRUE, repos, up)

get_prs(repos, up) == get_prs_body(repos.kind = "none", repos, up)

----------------------------------------------------------------------------
(* src/main.py: GithubController *)

NoController == [exists |-> FALSE, user |-> "", last_request |-> NoRequest, repos |-> NoRepos]

\* Variant: the new controller takes over the cache of the one it replaces.
NewController_KeepsCache(user) == [github_controller EXCEPT !.exists = TRUE, !.user = user]

\* GithubController.__init__
NewController(user) ==
    [exists |-> TRUE, user |-> user, last_request |-> NoRequest, repos |-> NoRepos]

\* Variant: the cache is never used.
IsFresh_Never(last_request, t) == FALSE

\* Variant: an entry of exactly one minute still counts as fresh.
IsFresh_Inclusive(last_request, t) == last_request.set /\ t - last_request.at <= TTL

\* The condition of __get_prs: an entry exists and is younger than a minute.
IsFresh(last_request, t) == last_request.set /\ t - last_request.at < TTL

\* Variant: a failed refresh drops the stored entry.
ctl_fetch_prs_ClearsOnError(ctl, t, d, up) ==
    LET got == get_prs(ctl.repos, up)
        prs == order_filter_prs(got.result, ctl.user)
        stored == IF got.raised THEN NoRequest
                  ELSE [set |-> TRUE, at |-> t + d,
                        open |-> prs.open, approved |-> prs.approved]
    IN  [ctl |-> [ctl EXCEPT !.repos = got.repos, !.last_request = stored],
         raised |-> got.raised, fetches |-> 1, fetched |-> got.result,
         listing |-> got.listing,
         open |-> IF got.raised THEN <<>> ELSE prs.open,
         approved |-> IF got.raised THEN <<>> ELSE prs.approved, done |-> t + d]

\* Variant: a failed refresh renews the timestamp of the stored entry.
ctl_fetch_prs_StampsOnError(ctl, t, d, up) ==
    LET got == get_prs(ctl.repos, up)
        prs == order_filter_prs(got.result, ctl.user)
        stored == IF got.raised THEN [ctl.last_request EXCEPT !.at = t + d]
                  ELSE [set |-> TRUE, at |-> t + d,
                        open |-> prs.open, approved |-> prs.approved]
    IN  [ctl |-> [ctl EXCEPT !.repos = got.repos, !.last_request = stored],
         raised |-> got.raised, fetches |-> 1, fetched |-> got.result,
         listing |-> got.listing,
         open |-> IF got.raised THEN <<>> ELSE prs.open,
         approved |-> IF got.raised THEN <<>> ELSE prs.approved, done |-> t + d]

\* GithubController.__fetch_prs, started at time t and taking d.
ctl_fetch_prs(ctl, t, d, up) ==
    LET got == get_prs(ctl.repos, up)
        prs == order_filter_prs(got.result, ctl.user)
    IN  IF got.raised
        THEN [ctl |-> [ctl EXCEPT !.repos = got.repos], raised |-> TRUE, fetches |-> 1,
              listing |-> got.listing,
              fetched |-> <<>>, open |-> <<>>, approved |-> <<>>, done |-> t + d]
        ELSE [ctl |-> [ctl EXCEPT !.repos = got.repos,
                                  !.last_request = [set |-> TRUE, at |-> t + d,
                                                    open |-> prs.open,
                                                    approved |-> prs.approved]],
              raised |-> FALSE, fetches |-> 1, fetched |-> got.result,
              listing |-> got.listing,
              open |-> prs.open, approved |-> prs.approved, done |-> t + d]

\* GithubController.__get_prs called at time t
ctl_get_prs(ctl, t, d, up) ==
    IF IsFresh(ctl.last_request, t)
    THEN [ctl |-> ctl, raised |-> FALSE, fetches |-> 0, fetched |-> <<>>,
          listing |-> FALSE,
          open |-> ctl.last_request.open, approved |-> ctl.last_request.approved,
          done |-> t]
    ELSE ctl_fetch_prs(ctl, t, d, up)

GITHUB_LOGO == "github_logo.png"
GITHUB_APPROVED_LOGO == "github_approved_logo.png"
GITHUB_USER_LOGO == "github_user_logo.png"
GITHUB_USER_APPROVED_LOGO == "github_user_approved_logo.png"
ERROR_ICON == "github_error_logo.png"

ErrorTitle == "Error getting Pull Requests"
ErrorDescription == "Check you connectivity, github url and access token"

NoAction == [action |-> "None", event |-> "", urls |-> <<>>]
OpenUrlAction(url) == [action |-> "OpenUrl", event |-> "", urls |-> <<url>>]
ActionList(urls) == [action |-> "ActionList", event |-> "", urls |-> urls]
DoNothingAction == [action |-> "DoNothing", event |-> "", urls |-> <<>>]
\* ExtensionCustomAction({"event": event, "pr_url": url}, keep_app_open=True)
CustomAction(event, urls) == [action |-> "Custom", event |-> event, urls |-> urls]

ErrorItem ==
    [name |-> ErrorTitle, description |-> <<ErrorDescription>>, icon |-> ERROR_ICON,
     on_enter |-> DoNothingAction, on_alt_enter |-> NoAction]

PrItem(pr, pr_type, user) ==
    LET icon == IF pr_type = "APPROVED" THEN GITHUB_APPROVED_LOGO ELSE GITHUB_LOGO
        user_icon == IF pr_type = "APPROVED" THEN GITHUB_USER_APPROVED_LOGO
                     ELSE GITHUB_USER_LOGO
    IN  [name |-> pr.title, description |-> <<pr.repo, pr.url>>,
         icon |-> IF pr.created_by # user THEN icon ELSE user_icon,
         on_enter |-> OpenUrlAction(pr.url),
         on_alt_enter |-> CustomAction("MULTISELECT", <<pr.url>>)]

\* GithubController.__build_approved_button
build_approved_button(approved_prs) ==
    [name |-> "Approved Pull Requests", description |-> <<Len(approved_prs)>>,
     icon |-> GITHUB_APPROVED_LOGO,
     on_enter |-> CustomAction("APPROVED_PRS", <<>>), on_alt_enter |-> NoAction]

\* Variant: the button is built from the records that passed the predicate.
build_pr_items_ButtonForShown(got, pr_type, predicate, include_approved_button) ==
    IF got.raised THEN <<ErrorItem>>
    ELSE LET relevant_prs == IF pr_type = "APPROVED" THEN got.approved ELSE got.open
             shown == SelectSeq(relevant_prs, LAMBDA pr : Holds(predicate, pr))
             items == [k \in DOMAIN shown |-> PrItem(shown[k], pr_type, got.ctl.user)]
         IN  IF include_approved_button /\ Len(shown) # 0
             THEN Append(items, build_approved_button(shown))
             ELSE items

\* GithubController.build_pr_items, given what __get_prs produced (got)
build_pr_items(got, pr_type, predicate, include_approved_button) ==
    IF got.raised THEN <<ErrorItem>>
    ELSE LET relevant_prs == IF pr_type = "APPROVED" THEN got.approved ELSE got.open
             shown == SelectSeq(relevant_prs, LAMBDA pr : Holds(predicate, pr))
             items == [k \in DOMAIN shown |-> PrItem(shown[k], pr_type, got.ctl.user)]
         IN  IF include_approved_button /\ Len(got.approved) # 0
             THEN Append(items, build_approved_button(got.approved))
             ELSE items

\* build_pr_items raises something other than GithubError: the predicate
\* raises on the first record it is applied to (line 162).
build_pr_items_raises(got, pr_type, predicate) ==
    /\ ~got.raised
    /\ (IF pr_type = "APPROVED" THEN got.approved ELSE got.open) # <<>>
    /\ PredicateRaises(predicate)

----------------------------------------------------------------------------
(* The upstream answers one refresh can meet *)

PrUrls == {"p1", "p2", "p3"}

\* A call served from the cache reads none of this.
NoUpstream ==
    [repos |-> Fail, spawn_fail |-> 0,
     pulls |-> [r \in RepoUrls |-> Fail],
     reviews |-> [u \in PrUrls |-> Fail],
     outer |-> <<1, 2>>, inner |-> [r \in RepoUrls |-> <<1, 2>>]]

\* The answers to the listing: only asked for while self.repos is None.
ReposSpace(repos) == IF repos.kind = "none" THEN ReposResponses ELSE {Fail}

\* The Process.start of get_prs that can raise: none (0), or the one of any
\* process of the list
SpawnSpace(repos, rr) ==
    LET listed == IF repos.kind = "none" /\ rr.ok THEN rr.body ELSE repos
    IN  IF (repos.kind = "none" /\ ~rr.ok) \/ listed.kind # "list" THEN {0}
        ELSE 0..Len(listed.items)

\* The repositories whose pull requests are asked for: those of the processes
\* started before a start raises (sf), all of them when none does
Listed(repos, rr, sf) ==
    LET listed == IF repos.kind = "none" /\ rr.ok THEN rr.body ELSE repos
    IN  IF (repos.kind = "none" /\ ~rr.ok) \/ listed.kind # "list" THEN {}
        ELSE {listed.items[k] : k \in {i \in DOMAIN listed.items : sf \notin 1..i}}

PullsSpace(repos, rr, sf) ==
    LET asked == Listed(repos, rr, sf)
        answers(r) == IF r \in asked THEN PullsResponses(r) ELSE {Fail}
    IN  {[r \in RepoUrls |-> IF r = "r1" THEN a1 ELSE a2] :
            a1 \in answers("r1"), a2 \in answers("r2")}

\* The pull requests whose reviews are asked for
Reviewed(pl) ==
    {u \in PrUrls : \E r \in RepoUrls :
        pl[r].ok /\ \E k \in DOMAIN pl[r].body :
            pl[r].body[k].url = u /\ pl[r].body[k].wellformed}

ReviewsSpace(pl) ==
    LET asked == Reviewed(pl)
        answers(u) == IF u \in asked THEN ReviewsResponses(u) ELSE {Fail}
    IN  {[u \in PrUrls |-> IF u = "p1" THEN a1 ELSE IF u = "p2" THEN a2 ELSE a3] :
            a1 \in answers("p1"), a2 \in answers("p2"), a3 \in answers("p3")}

\* Orders in which the children can write their entries
OuterSpace(pl) ==
    IF \A r \in RepoUrls : pl[r].ok THEN Perms(2) ELSE {<<1, 2>>}

InnerSpace(pl) ==
    LET orders(r) == IF Len(pl[r].body) < 2 THEN {<<1, 2>>} ELSE Perms(2)
    IN  {[r \in RepoUrls |-> IF r = "r1" THEN o1 ELSE o2] :
            o1 \in orders("r1"), o2 \in orders("r2")}

\* Which steps of a refresh failed, given the answers: a request, a payload,
\* the start of a process, or the use of a stored listing that is not a list
FailedSteps(repos, up) ==
    LET asked == Listed(repos, up.repos, up.spawn_fail)
    IN  {s \in {"repos", "repos_payload", "repos_stored", "spawn", "pulls", "payload",
                "reviews"} :
           \/ s = "repos" /\ repos.kind = "none" /\ ~up.repos.ok
           \/ s = "repos_payload" /\ repos.kind = "none" /\ up.repos.ok
                                  /\ up.repos.body.kind # "list"
           \/ s = "repos_stored" /\ repos.kind = "object"
           \/ s = "spawn" /\ up.spawn_fail # 0
           \/ s = "pulls" /\ \E r \in asked : ~up.pulls[r].ok
           \/ s = "payload" /\ \E r \in asked : \E k \in DOMAIN up.pulls[r].body :
                                   ~up.pulls[r].body[k].wellformed
           \/ s = "reviews" /\ \E u \in Reviewed(up.pulls) : ~up.reviews[u].ok}

\* The arguments of the keyword query: none (the default "") and "("
Queries == { <<>>, <<"(">> }

----------------------------------------------------------------------------
(* The extension: state after construction, and the event listeners *)

\* preferences["user"] in the runs of the pipeline and of get_prs
PipeUser == "alice"

\* The values preferences["user"] is given, and the preferences an update
\* event names: the user, or one of those of the client (hostname, org,
\* access_token), which "org" stands for
Users == {"alice", "bob"}
PreferenceIds == {"user", "org"}
NoPreferences == [user |-> ""]

NoOut == [done |-> FALSE, open |-> <<>>, approved |-> <<>>]

PipeIdle ==
    /\ pipe_reviews = <<>>
    /\ pipe_prs = <<>>
    /\ pipe_out = NoOut

Durations == {0, Tick}

\* What is recorded of a build_pr_items call: when it was made (at) and
\* returned (done), whether a cache entry existed, how often __fetch_prs
\* ran, whether GithubError was raised, what __get_prs and build_pr_items
\* returned; whether it raised something else (threw), and its arguments;
\* whether the repository listing was requested (listing) and whether it has
\* returned a payload in this or an earlier call (has_payload); whether the
\* call is the first on its controller (first). replaced is the entry held
\* by the controller that this one replaced if it was younger than a minute
\* then, until the second call.
NoCall == [any |-> FALSE, id |-> 0, at |-> 0, done |-> 0, had_entry |-> FALSE,
           fetches |-> 0, raised |-> FALSE, open |-> <<>>, approved |-> <<>>,
           items |-> <<>>, threw |-> FALSE, pr_type |-> "NONE",
           predicate |-> "",
           listing |-> FALSE, has_payload |-> FALSE, first |-> FALSE,
           replaced |-> [set |-> FALSE, at |-> 0]]
\* Of the call before it: clean when no step of its refresh failed.
NoPrev == [any |-> FALSE, at |-> 0, done |-> 0, raised |-> FALSE, clean |-> TRUE]
\* What is recorded of a Github.get_prs run: the steps that failed, whether
\* it raised, the URLs of the records it returned.
NoFetch == [ran |-> FALSE, failed |-> {}, raised |-> FALSE, returned |-> {}]

CtlIdle ==
    /\ github_controller = NoController
    /\ preferences = NoPreferences
    /\ subscribed = FALSE
    /\ multiselect_urls = <<>>
    /\ multiselect_value = "NONE"
    /\ now = 0
    /\ rendered = <<>>
    /\ call = NoCall
    /\ prev = NoPrev
    /\ fetch = NoFetch

NoItemsIn == [raised |-> FALSE, open |-> <<>>, approved |-> <<>>, pr_type |-> "NONE",
              predicate |-> Always, button |-> FALSE]
NoItems == [done |-> FALSE, threw |-> FALSE, items |-> <<>>]

ItemsIdle ==
    /\ items_in = NoItemsIn
    /\ items_out = NoItems

\* The pull requests of the run of get_prs that is followed process by process
FetchPrUrls == {"p1", "p3", "p4", "p5"}

FetchIdle ==
    /\ f_up = [repos |-> Fail, spawn_fail |-> 0,
               pulls |-> [r \in RepoUrls |-> Fail],
               reviews |-> [u \in FetchPrUrls |-> Fail]]
    /\ f_pc = "idle"
    /\ f_started = 0
    /\ f_joined = 0
    /\ fp = [r \in RepoUrls |-> [pc |-> "idle", started |-> 0, joined |-> 0]]
    /\ bp = [u \in FetchPrUrls |-> "idle"]
    /\ f_matrix = <<>>
    /\ f_inner = [r \in RepoUrls |-> <<>>]
    /\ f_result = <<>>

Init == CtlIdle /\ PipeIdle /\ ItemsIdle /\ FetchIdle

\* The clock advances between events.
Advance ==
    /\ now + Tick <= MaxTicks * Tick
    /\ now' = now + Tick
    /\ UNCHANGED <<github_controller, preferences, subscribed, multiselect_urls,
                   multiselect_value, rendered, call, prev, fetch>>
    /\ UNCHANGED pipeVars
    /\ UNCHANGED itemVars
    /\ UNCHANGED fetchVars

\* PreferencesEventListener.on_event (sent once, when the extension starts),
\* for event.preferences["user"] = user. The launcher's library keeps the
\* preferences of the event in extension.preferences.
PreferencesEvent ==
    /\ ~subscribed
    /\ \E user \in Users :
         /\ github_controller' = NewController(user)
         /\ preferences' = [user |-> user]
    /\ subscribed' = TRUE
    /\ UNCHANGED <<multiselect_urls, multiselect_value, now, rendered, call, prev, fetch>>
    /\ UNCHANGED pipeVars
    /\ UNCHANGED itemVars
    /\ UNCHANGED fetchVars

\* PreferencesUpdateEventListener.on_event, for event.id = id and
\* event.new_value = new_value: the controller is built from a copy of
\* extension.preferences that holds the new value. The listener leaves
\* extension.preferences itself alone; whether the launcher's library has
\* put the new value there is not decided by this program. The observations
\* are those of the calls on one controller: they start again with the new one.
PreferencesUpdateEvent ==
    /\ subscribed
    /\ \E id \in PreferenceIds, new_value \in Users :
         LET updated == IF id = "user" THEN [preferences EXCEPT !.user = new_value]
                        ELSE preferences
         IN  /\ github_controller' = NewController(updated.user)
             /\ preferences' \in {preferences, updated}
    /\ call' = [NoCall EXCEPT !.replaced =
                   IF github_controller.last_request.set
                      /\ now - github_controller.last_request.at < TTL
                   THEN [set |-> TRUE, at |-> github_controller.last_request.at]
                   ELSE NoCall.replaced]
    /\ prev' = NoPrev /\ fetch' = NoFetch
    /\ UNCHANGED <<subscribed, multiselect_urls, multiselect_value, now, rendered>>
    /\ UNCHANGED pipeVars
    /\ UNCHANGED itemVars
    /\ UNCHANGED fetchVars

\* The end of a listener that calls build_pr_items: got is what __get_prs
\* produced against the answers up, head the items put before the list.
\* When build_pr_items raises, the listener returns no action: the list on
\* screen stays, or the launcher has taken it away for the new query. Line 153
\* has set the payload of MULTISELECT before.
Render(got, up, pr_type, predicate, include_approved_button, head) ==
    /\ github_controller' = got.ctl
    /\ now' = got.done
    /\ multiselect_value' = IF got.raised THEN multiselect_value ELSE pr_type
    /\ rendered' \in IF build_pr_items_raises(got, pr_type, predicate)
                     THEN {rendered, <<>>}
                     ELSE {head \o build_pr_items(got, pr_type, predicate,
                                                  include_approved_button)}
    /\ call' = [any |-> TRUE, id |-> 1 - call.id, at |-> now, done |-> got.done,
                had_entry |-> github_controller.last_request.set,
                fetches |-> got.fetches, raised |-> got.raised,
                open |-> got.open, approved |-> got.approved,
                items |-> IF build_pr_items_raises(got, pr_type, predicate) THEN <<>>
                          ELSE build_pr_items(got, pr_type, predicate,
                                              include_approved_button),
                threw |-> build_pr_items_raises(got, pr_type, predicate),
                pr_type |-> pr_type, predicate |-> predicate.kind,
                listing |-> got.listing,
                has_payload |-> call.has_payload \/ (got.listing /\ up.repos.ok),
                first |-> ~call.any,
                replaced |-> IF call.any THEN NoCall.replaced ELSE call.replaced]
    /\ prev' = [any |-> call.any, at |-> call.at, done |-> call.done,
                raised |-> call.raised, clean |-> fetch.failed = {}]
    /\ fetch' = IF got.fetches = 0 THEN NoFetch
                ELSE [ran |-> TRUE, raised |-> got.raised,
                      failed |-> FailedSteps(github_controller.repos, up),
                      returned |-> {pr.url : pr \in Range(got.fetched)}]
    /\ UNCHANGED <<preferences, subscribed>>
    /\ UNCHANGED pipeVars
    /\ UNCHANGED itemVars
    /\ UNCHANGED fetchVars

\* build_pr_items called now: served from the cache, or refreshed against
\* some upstream answers, taking some time.
BuildPrItems(pr_type, predicate, include_approved_button, head) ==
    LET ctl == github_controller
    IN  IF ctl_get_prs(ctl, now, 0, NoUpstream).fetches = 0
        THEN Render(ctl_get_prs(ctl, now, 0, NoUpstream), NoUpstream,
                    pr_type, predicate, include_approved_button, head)
        ELSE \E d \in Durations, rr \in ReposSpace(ctl.repos) :
               \E sf \in SpawnSpace(ctl.repos, rr) :
               \E pl \in PullsSpace(ctl.repos, rr, sf) :
                 \E rv \in ReviewsSpace(pl), o \in OuterSpace(pl), in \in InnerSpace(pl) :
                   LET up == [repos |-> rr, spawn_fail |-> sf, pulls |-> pl,
                              reviews |-> rv, outer |-> o, inner |-> in]
                       got == ctl_get_prs(ctl, now, d, up)
                   IN  /\ now + d <= MaxTicks * Tick
                       /\ Render(got, up, pr_type, predicate,
                                 include_approved_button, head)

\* KeywordQueryEventListener.on_event
KeywordQueryEvent ==
    /\ subscribed
    /\ \E query \in Queries :
         /\ multiselect_urls' = <<>>
         /\ BuildPrItems("OPEN", Matches(query), TRUE, <<>>)

\* ApprovedPrsEventListener.on_event, for an ItemEnterEvent of the button
ApprovedPrsEvent ==
    /\ \E k \in DOMAIN rendered : rendered[k].on_enter.event = "APPROVED_PRS"
    /\ UNCHANGED multiselect_urls
    /\ BuildPrItems("APPROVED", Always, FALSE, <<>>)

\* MultiselectEventListener.on_event, for an ItemEnterEvent (alt-enter) of a
\* pull request item of the rendered list
MultiselectEvent ==
    /\ Len(multiselect_urls) < MaxSelected
    /\ \E k \in DOMAIN rendered :
         /\ rendered[k].on_alt_enter.event = "MULTISELECT"
         /\ LET urls == multiselect_urls \o rendered[k].on_alt_enter.urls
                head == [name |-> <<"Open", Len(urls)>>,
                         description |-> <<"Do not write a query">>,
                         icon |-> GITHUB_APPROVED_LOGO,
                         on_enter |-> ActionList(urls), on_alt_enter |-> NoAction]
            IN  /\ multiselect_urls' = urls
                /\ BuildPrItems(multiselect_value, NotSelected(urls), FALSE, <<head>>)

Next ==
    \/ Advance
    \/ PreferencesEvent
    \/ PreferencesUpdateEvent
    \/ KeywordQueryEvent
    \/ ApprovedPrsEvent
    \/ MultiselectEvent

Spec == Init /\ [][Next]_vars

----------------------------------------------------------------------------
(* Claims about the cache and the refresh (Spec) *)

\* A step of a listener that called build_pr_items
IsCall == call'.any /\ call'.id # call.id

Entry == github_controller.last_request

\* C1: if any step of a refresh fails (the listing, the pull requests of a
\* repository, the reviews of a pull request, a malformed payload), get_prs
\* raises GithubError: no list missing the failed part is returned or stored.
C1_WholeOrNothing ==
    (fetch.ran /\ fetch.failed # {}) => fetch.raised

\* C2: a call made while an entry exists and is younger than 60 s returns
\* exactly the stored snapshot without a fetch; at exactly 60 s the entry is
\* stale and the call fetches.
C2_CacheHit ==
    [][ (IsCall /\ Entry.set) =>
          IF now - Entry.at < 60
          THEN /\ call'.fetches = 0 /\ ~call'.raised
               /\ call'.open = Entry.open /\ call'.approved = Entry.approved
               /\ github_controller' = github_controller
          ELSE call'.fetches = 1 ]_vars

\* C2 witness: a call served from an entry of age 30 s
C2_Witness ==
    /\ call.any /\ call.fetches = 0
    /\ Entry.set /\ call.at - Entry.at > 0
    /\ call.open = Entry.open /\ call.approved = Entry.approved
    /\ call.open # <<>>

\* C3 as stated: of two consecutive calls whose call times are at least 60 s
\* apart, the second triggers exactly one fetch (also when the first call
\* performed a fetch that took time). Stated for calls none of whose refresh
\* steps failed, so that a violation owes nothing to a swallowed failure.
C3_Original ==
    (prev.any /\ prev.clean /\ fetch.failed = {} /\ call.at - prev.at >= 60)
        => call.fetches = 1

\* C3 as amended: a call made at least 60 s after the previous call returned
\* triggers exactly one fetch.
C3_Expiry ==
    (prev.any /\ call.at - prev.done >= 60) => call.fetches = 1

\* C3 witness: the previous call fetched and stored, and a call at least 60 s
\* after its return found the entry and fetched again.
C3_Witness ==
    /\ prev.any /\ ~prev.raised /\ call.at - prev.done >= 60
    /\ call.had_entry /\ call.fetches = 1

\* C4: when a refresh raises GithubError, last_request keeps its value and
\* build_pr_items returns exactly one item, the error item, with the error's
\* title and description (no pull request item, no approved button).
C4_UnchangedOnError ==
    [][ (IsCall /\ call'.raised) =>
          /\ github_controller'.last_request = github_controller.last_request
          /\ Len(call'.items) = 1
          /\ call'.items[1].name = "Error getting Pull Requests"
          /\ call'.items[1].description =
                <<"Check you connectivity, github url and access token">>
          /\ call'.items[1].on_enter.action = "DoNothing"
          /\ call'.items[1].on_alt_enter.action = "None" ]_vars

\* C4 witness: a refresh raised while an earlier snapshot was stored, and the
\* snapshot is still there.
C4_Witness ==
    /\ call.any /\ call.raised /\ call.had_entry
    /\ Entry.set /\ Entry.open # <<>>
    /\ Len(call.items) = 1

\* C5: the call after a call whose refresh raised fetches again, however
\* little time has passed.
C5_RetryAfterFailure ==
    (prev.any /\ prev.raised) => call.fetches = 1

\* C5 witness: a retry at the very time the failed call returned, with a
\* stale entry still stored.
C5_Witness ==
    /\ prev.any /\ prev.raised /\ call.at = prev.done
    /\ call.had_entry /\ call.fetches = 1

NoDrafts(prs) == \A k \in DOMAIN prs : ~prs[k].is_draft

\* C10: no draft record is in the open or approved sequence of the cached
\* snapshot or of a value returned by __get_prs.
C10_DraftExclusion ==
    /\ NoDrafts(Entry.open) /\ NoDrafts(Entry.approved)
    /\ NoDrafts(call.open) /\ NoDrafts(call.approved)

\* C10 witness: get_prs returned the draft (approved by two reviewers, written
\* by the user) and the snapshot built from its result is stored.
C10_Witness ==
    /\ fetch.ran /\ ~fetch.raised /\ "h2" \in fetch.returned
    /\ Entry.set /\ call.fetches = 1

----------------------------------------------------------------------------
(* Pipeline check: __get_pr_approves, __build_pr and __order_filter_prs     *)
(* applied to inputs drawn from bounded sets.                               *)

CreatedAts == {1, 2}
Authors == {"alice", "bob"}

ReviewChoices ==
    { <<>>,
      <<Review("CHANGES_REQUESTED", "alice"), Review("APPROVED", "bob")>>,
      <<Review("APPROVED", "bob"), Review("APPROVED", "bob")>>,
      <<Review("APPROVED", "bob"), Review("APPROVED", "carol")>>,
      <<Review("APPROVED", "alice")>> }

\* One pull request of the input: its payload fields and its reviews. Every
\* combination for a pull request that is not a draft; a draft is the newest,
\* by either author, without reviews or approved by two reviewers.
PipeInputs ==
    {[draft |-> FALSE, login |-> l, at |-> a, reviews |-> rv] :
        l \in Authors, a \in CreatedAts, rv \in ReviewChoices}
    \cup
    {[draft |-> TRUE, login |-> l, at |-> 2, reviews |-> rv] :
        l \in Authors,
        rv \in {<<>>, <<Review("APPROVED", "bob"), Review("APPROVED", "carol")>>}}

\* The i-th pull request payload of the input; its URLs are unique.
PipePayload(i, in) ==
    [url |-> i, html_url |-> i, title |-> <<"t">>, repo_name |-> <<"r">>,
     draft |-> in.draft, login |-> in.login, created_at |-> in.at]

PipeInit ==
    /\ \E n \in 0..MaxPrs :
         \E in \in [1..n -> PipeInputs] :
           /\ pipe_reviews = [i \in 1..n |-> in[i].reviews]
           /\ pipe_prs = [i \in 1..n |-> build_pr(PipePayload(i, in[i]), in[i].reviews)]
    /\ pipe_out = NoOut
    /\ CtlIdle
    /\ ItemsIdle
    /\ FetchIdle

\* GithubController.__order_filter_prs(prs) with self.user = PipeUser
OrderFilter ==
    /\ ~pipe_out.done
    /\ pipe_out' = [done |-> TRUE] @@ order_filter_prs(pipe_prs, PipeUser)
    /\ UNCHANGED <<pipe_reviews, pipe_prs>>
    /\ UNCHANGED ctlVars
    /\ UNCHANGED itemVars
    /\ UNCHANGED fetchVars

PipeNext == OrderFilter

SpecPipe == PipeInit /\ [][PipeNext]_vars

----------------------------------------------------------------------------
(* Claims about the pipeline (SpecPipe) *)

NonDraftInputs == {i \in DOMAIN pipe_prs : ~pipe_prs[i].is_draft}

\* The distinct logins that left an APPROVED review on input record i
Approvers(i) ==
    {pipe_reviews[i][k].login : k \in {k \in DOMAIN pipe_reviews[i] :
                                         pipe_reviews[i][k].state = "APPROVED"}}

\* C6: every non-draft record is in the approved sequence iff it has at least
\* 2 entries in its approves list or the user is among them; otherwise it is
\* in the open sequence.
C6_ApprovalPredicate ==
    pipe_out.done =>
      \A i \in NonDraftInputs :
        LET r == pipe_prs[i]
            ok == Len(r.approves) >= 2 \/ \E k \in DOMAIN r.approves : r.approves[k] = PipeUser
        IN  /\ (r \in Range(pipe_out.approved)) <=> ok
            /\ (r \in Range(pipe_out.open)) <=> ~ok

\* C6 witness: one run puts a record in approved by count, one by the user's
\* own approval, and leaves one with a single foreign approval open.
C6_Witness ==
    /\ pipe_out.done
    /\ \E r \in Range(pipe_out.approved) : Len(r.approves) >= 2 /\ PipeUser \notin Range(r.approves)
    /\ \E r \in Range(pipe_out.approved) : r.approves = <<PipeUser>>
    /\ \E r \in Range(pipe_out.open) : Len(r.approves) = 1

\* C7: the approvers of a pull request form a set (a reviewer who approved
\* several times counts once), and a pull request whose approvals all come
\* from one reviewer other than the user is not classified as approved.
C7_DistinctApprovers ==
    pipe_out.done =>
      \A i \in NonDraftInputs :
        /\ Len(pipe_prs[i].approves) = Cardinality(Approvers(i))
        /\ (Cardinality(Approvers(i)) = 1 /\ PipeUser \notin Approvers(i))
              => pipe_prs[i] \notin Range(pipe_out.approved)

OrderedIn(s) ==
    \A i, j \in DOMAIN s :
      i < j =>
        /\ ~(s[i].created_by # PipeUser /\ s[j].created_by = PipeUser)
        /\ ((s[i].created_by = PipeUser) <=> (s[j].created_by = PipeUser))
              => s[i].created_at >= s[j].created_at

\* C8: in the open and in the approved sequence the user's own records come
\* before all others, and created_at is non-increasing within each group.
C8_OutputOrdering ==
    pipe_out.done => OrderedIn(pipe_out.open) /\ OrderedIn(pipe_out.approved)

\* C8 witness: the input was out of order in both respects and the open
\* sequence holds own and foreign records of different ages.
C8_Witness ==
    /\ pipe_out.done
    /\ Len(pipe_out.open) = 3
    /\ pipe_prs[1].created_by # PipeUser /\ pipe_prs[1].created_at = 1
    /\ pipe_prs[2].created_by = PipeUser /\ pipe_prs[2].created_at = 1
    /\ pipe_prs[3].created_by = PipeUser /\ pipe_prs[3].created_at = 2

\* C9: open and approved are disjoint, each is a subsequence of the sorted
\* non-draft sequence, and together they hold every non-draft input record
\* exactly once and nothing else.
C9_PartitionCompleteness ==
    pipe_out.done =>
      LET open == pipe_out.open
          approved == pipe_out.approved
          sorted == ordered_prs(pipe_prs, PipeUser)
      IN  /\ Range(open) \cap Range(approved) = {}
          /\ IsSubseq(open, sorted) /\ IsSubseq(approved, sorted)
          /\ Range(open) \cup Range(approved) = {pipe_prs[i] : i \in NonDraftInputs}
          /\ Len(open) + Len(approved) = Cardinality(NonDraftInputs)

\* C9 witness: a run with a draft dropped and both sequences non-empty.
C9_Witness ==
    /\ pipe_out.done
    /\ Cardinality(NonDraftInputs) < Len(pipe_prs)
    /\ pipe_out.open # <<>> /\ pipe_out.approved # <<>>

----------------------------------------------------------------------------
(* Item check: build_pr_items applied to snapshots and arguments drawn     *)
(* from bounded sets.                                                       *)

ItemPr(url, title, repo, login, at, approves) ==
    [repo |-> repo, title |-> title, url |-> url, is_draft |-> FALSE,
     created_by |-> login, created_at |-> at, approves |-> approves]

\* The records a snapshot is made of: "AP" is in the repository name of the
\* first only, in the title of the second only, and in neither of the third.
ItemRecords ==
    << ItemPr("u1", <<"F", "i", "x">>, <<"a", "p", "i">>, "alice", 2, <<>>),
       ItemPr("u2", <<"W", "a", "p">>, <<"w", "e", "b">>, "bob", 2, <<>>),
       ItemPr("u3", <<"A", "d", "d">>, <<"w", "e", "b">>, "bob", 1, <<"carol">>),
       ItemPr("u4", <<"F", "i", "x">>, <<"a", "p", "i">>, "bob", 1, <<"alice">>),
       ItemPr("u5", <<"A", "d", "d">>, <<"w", "e", "b">>, "alice", 1, <<"bob", "carol">>) >>

\* The query texts: "", "AP", "w", "x", "a.i" and "("
ItemQueries ==
    { <<>>, <<"A", "P">>, <<"w">>, <<"x">>, <<"a", ".", "i">>, <<"(">> }

\* The predicates the listeners pass to build_pr_items
ItemPredicates ==
    {Matches(q) : q \in ItemQueries} \cup {Always, NotSelected(<<"u1">>)}

\* The records of ItemRecords at the positions in keep, in that order
Pick(keep) == SelectSeq(ItemRecords, LAMBDA r : \E k \in keep : ItemRecords[k] = r)

\* A snapshot as __get_prs returns it, or GithubError, and the arguments
ItemsInit ==
    /\ \E keep \in SUBSET (DOMAIN ItemRecords), raised \in BOOLEAN,
          pr_type \in {"OPEN", "APPROVED"}, predicate \in ItemPredicates,
          button \in BOOLEAN :
         LET prs == order_filter_prs(Pick(keep), PipeUser)
         IN  items_in = [raised |-> raised,
                         open |-> IF raised THEN <<>> ELSE prs.open,
                         approved |-> IF raised THEN <<>> ELSE prs.approved,
                         pr_type |-> pr_type, predicate |-> predicate,
                         button |-> button]
    /\ items_out = NoItems
    /\ CtlIdle
    /\ PipeIdle
    /\ FetchIdle

\* GithubController.build_pr_items(pr_type, predicate, include_approved_button)
BuildItems ==
    /\ ~items_out.done
    /\ LET got == [raised |-> items_in.raised, open |-> items_in.open,
                   approved |-> items_in.approved, ctl |-> NewController(PipeUser)]
           threw == build_pr_items_raises(got, items_in.pr_type, items_in.predicate)
       IN  items_out' =
             [done |-> TRUE, threw |-> threw,
              items |-> IF threw THEN <<>>
                        ELSE build_pr_items(got, items_in.pr_type, items_in.predicate,
                                            items_in.button)]
    /\ UNCHANGED items_in
    /\ UNCHANGED ctlVars
    /\ UNCHANGED pipeVars
    /\ UNCHANGED fetchVars

ItemsNext == BuildItems

SpecItems == ItemsInit /\ [][ItemsNext]_vars

----------------------------------------------------------------------------
(* Claims about the items (SpecItems) *)

\* A keyword query returned a list
IsKeywordList ==
    /\ items_out.done /\ ~items_in.raised
    /\ items_in.predicate.kind = "matches" /\ items_in.pr_type = "OPEN"

\* The pull request items of a list, by the URL they open
PrItemUrls(items) ==
    LET prs == SelectSeq(items, LAMBDA it : it.on_alt_enter.event = "MULTISELECT")
    IN  [k \in DOMAIN prs |-> prs[k].on_enter.urls[1]]

SameLetter(a, b) ==
    \/ a = b
    \/ \E i \in DOMAIN UpperCase : {a, b} = {UpperCase[i], LowerCase[i]}

\* text contains query, letter case apart
Contains(text, query) ==
    \E i \in 0..(Len(text) - Len(query)) :
        \A k \in 1..Len(query) : SameLetter(text[i + k], query[k])

\* The open records whose title or repository name contains the query text
Containing(query) ==
    LET hit == SelectSeq(items_in.open,
                         LAMBDA pr : Contains(pr.title, query) \/ Contains(pr.repo, query))
    IN  [k \in DOMAIN hit |-> hit[k].url]

\* C11 as stated: for every query text, the pull request items of a keyword
\* query are exactly the open records whose title or repository name contains
\* the query text, letter case apart, in the order of the open sequence.
C11_Original ==
    IsKeywordList => PrItemUrls(items_out.items) = Containing(items_in.predicate.query)

IsLiteral(query) == \A k \in DOMAIN query : query[k] \notin {".", "("}

\* C11 as amended: the same, for every query text without regular-expression
\* metacharacters.
C11_QueryFilter ==
    (IsKeywordList /\ IsLiteral(items_in.predicate.query))
        => /\ ~items_out.threw
           /\ PrItemUrls(items_out.items) = Containing(items_in.predicate.query)

\* C11 witness: the query "AP" over an open sequence holding a record matched
\* by its repository name only, one matched by its title only and one not
\* matched: the first two are listed, in order.
C11_Witness ==
    /\ IsKeywordList /\ items_in.predicate.query = <<"A", "P">>
    /\ Len(items_in.open) = 3
    /\ PrItemUrls(items_out.items) = <<"u1", "u2">>

IsButton(it) == it.on_enter.event = "APPROVED_PRS"

\* C12: a build_pr_items call that succeeds appends exactly one button after
\* the pull request items iff include_approved_button is set and the approved
\* sequence is not empty; the button shows the number of approved records,
\* whatever the predicate let through.
C12_ApprovedButton ==
    (items_out.done /\ ~items_in.raised /\ ~items_out.threw) =>
      LET items == items_out.items
          n == Len(items)
          buttons == {k \in 1..n : IsButton(items[k])}
          wanted == items_in.button /\ items_in.approved # <<>>
      IN  /\ wanted => /\ buttons = {n}
                       /\ items[n].description = <<Len(items_in.approved)>>
          /\ ~wanted => buttons = {}
          /\ \A k \in 1..n : k \notin buttons => items[k].on_alt_enter.event = "MULTISELECT"

\* C12 witness: a keyword query that matches no open record still shows the
\* button, counting both approved records.
C12_Witness ==
    /\ items_out.done /\ items_in.button /\ Len(items_in.approved) = 2
    /\ items_in.open # <<>> /\ items_in.predicate.query = <<"x">>
    /\ Len(items_out.items) = 1 /\ IsButton(items_out.items[1])
    /\ items_out.items[1].description = <<2>>

----------------------------------------------------------------------------
(* src/src/github.py: one run of Github.get_prs, process by process         *)

\* Pull requests as old as P1 and by the same author, one in each repository
P4 == Payload("p4", "h4", <<"F", "i", "x">>, <<"a", "p", "i">>, FALSE, "alice", 2, TRUE)
P5 == Payload("p5", "h5", <<"A", "d", "d">>, <<"w", "e", "b">>, FALSE, "alice", 2, TRUE)

FetchPulls(r) ==
    IF r = "r1" THEN {Fail, Ok(<<>>), Ok(<<P1>>), Ok(<<P1, P4>>)}
    ELSE {Ok(<<>>), Ok(<<P3>>), Ok(<<P5>>), Ok(<<P3Bad>>)}

FetchReviews(u) ==
    IF u = "p1" THEN {Fail, Ok(<<>>)}
    ELSE IF u = "p3" THEN {Ok(<<>>), Ok(<<Review("APPROVED", "alice")>>)}
    ELSE {Ok(<<>>)}

\* A Manager().dict(): its entries in insertion order. An assignment to a
\* key it holds replaces the value in place.
DictSet_Lossy(d, key, value) == <<[key |-> key, value |-> value]>>

DictSet(d, key, value) ==
    IF \E i \in DOMAIN d : d[i].key = key
    THEN [i \in DOMAIN d |-> IF d[i].key = key THEN [key |-> key, value |-> value]
                              ELSE d[i]]
    ELSE Append(d, [key |-> key, value |-> value])

\* dict.values()
DictValues(d) == [i \in DOMAIN d |-> d[i].value]

\* Variant: join returns for a process that has been started.
Terminated_Started(pc) == pc # "idle"

\* Variant: join returns only for a process that ended normally.
Terminated_OnlyDone(pc) == pc = "done"

\* Process.join() returns when the process has ended, normally or by an
\* exception.
Terminated(pc) == pc \in {"done", "failed"}

\* self.repos once the listing is stored, and the pull requests of a repository
FetchRepos == f_up.repos.body.items
FetchBody(r) == f_up.pulls[r].body

FetchInit ==
    /\ \E rr \in ReposResponses,
          a1 \in FetchPulls("r1"), a2 \in FetchPulls("r2"),
          v1 \in FetchReviews("p1"), v3 \in FetchReviews("p3") :
       \E sf \in SpawnSpace(NoRepos, rr) :
         f_up = [repos |-> rr, spawn_fail |-> sf,
                 pulls |-> [r \in RepoUrls |-> IF r = "r1" THEN a1 ELSE a2],
                 reviews |-> [u \in FetchPrUrls |->
                                IF u = "p1" THEN v1 ELSE IF u = "p3" THEN v3
                                ELSE Ok(<<>>)]]
    /\ f_pc = "list"
    /\ f_started = 0
    /\ f_joined = 0
    /\ fp = [r \in RepoUrls |-> [pc |-> "idle", started |-> 0, joined |-> 0]]
    /\ bp = [u \in FetchPrUrls |-> "idle"]
    /\ f_matrix = <<>>
    /\ f_inner = [r \in RepoUrls |-> <<>>]
    /\ f_result = <<>>
    /\ CtlIdle
    /\ PipeIdle
    /\ ItemsIdle

\* get_prs, lines 42-47: the listing is requested and stored; the processes
\* are made from it (r["url"] raises on a payload that is not a list).
MainList ==
    /\ f_pc = "list"
    /\ f_pc' = IF f_up.repos.ok /\ f_up.repos.body.kind = "list" THEN "spawn"
               ELSE "raised"
    /\ UNCHANGED <<f_up, f_started, f_joined, fp, bp, f_matrix, f_inner, f_result>>
    /\ UNCHANGED <<ctlVars, pipeVars, itemVars>>

\* get_prs, lines 49-50: the next process is started, or its start raises
\* (the start at position spawn_fail): get_prs raises and starts no further
\* process, the processes started before go on.
MainStart ==
    /\ f_pc = "spawn"
    /\ IF f_started = Len(FetchRepos)
       THEN /\ f_pc' = "join"
            /\ UNCHANGED <<f_started, fp>>
       ELSE IF f_up.spawn_fail = f_started + 1
       THEN /\ f_pc' = "raised"
            /\ UNCHANGED <<f_started, fp>>
       ELSE /\ f_started' = f_started + 1
            /\ fp' = [fp EXCEPT ![FetchRepos[f_started + 1]].pc = "get"]
            /\ UNCHANGED f_pc
    /\ UNCHANGED <<f_up, f_joined, bp, f_matrix, f_inner, f_result>>
    /\ UNCHANGED <<ctlVars, pipeVars, itemVars>>

\* get_prs, lines 51-52: the processes are joined in the order of the list.
MainJoin ==
    /\ f_pc = "join"
    /\ IF f_joined = Len(FetchRepos)
       THEN /\ f_pc' = "flatten"
            /\ UNCHANGED f_joined
       ELSE /\ Terminated(fp[FetchRepos[f_joined + 1]].pc)
            /\ f_joined' = f_joined + 1
            /\ UNCHANGED f_pc
    /\ UNCHANGED <<f_up, f_started, fp, bp, f_matrix, f_inner, f_result>>
    /\ UNCHANGED <<ctlVars, pipeVars, itemVars>>

\* get_prs, lines 54-59
MainFlatten ==
    /\ f_pc = "flatten"
    /\ f_result' = Flatten(DictValues(f_matrix))
    /\ f_pc' = "done"
    /\ UNCHANGED <<f_up, f_started, f_joined, fp, bp, f_matrix, f_inner>>
    /\ UNCHANGED <<ctlVars, pipeVars, itemVars>>

\* __fetch_prs, lines 64-67: the request; a failed one ends the process.
FetchGet(r) ==
    /\ fp[r].pc = "get"
    /\ fp' = [fp EXCEPT ![r].pc = IF f_up.pulls[r].ok THEN "spawn" ELSE "failed"]
    /\ UNCHANGED <<f_up, f_pc, f_started, f_joined, bp, f_matrix, f_inner, f_result>>
    /\ UNCHANGED <<ctlVars, pipeVars, itemVars>>

\* __fetch_prs, lines 68-69
FetchStart(r) ==
    /\ fp[r].pc = "spawn"
    /\ IF fp[r].started = Len(FetchBody(r))
       THEN /\ fp' = [fp EXCEPT ![r].pc = "join"]
            /\ UNCHANGED bp
       ELSE /\ fp' = [fp EXCEPT ![r].started = @ + 1]
            /\ bp' = [bp EXCEPT ![FetchBody(r)[fp[r].started + 1].url] = "run"]
    /\ UNCHANGED <<f_up, f_pc, f_started, f_joined, f_matrix, f_inner, f_result>>
    /\ UNCHANGED <<ctlVars, pipeVars, itemVars>>

\* __fetch_prs, lines 70-71
FetchJoin(r) ==
    /\ fp[r].pc = "join"
    /\ IF fp[r].joined = Len(FetchBody(r))
       THEN fp' = [fp EXCEPT ![r].pc = "write"]
       ELSE /\ Terminated(bp[FetchBody(r)[fp[r].joined + 1].url])
            /\ fp' = [fp EXCEPT ![r].joined = @ + 1]
    /\ UNCHANGED <<f_up, f_pc, f_started, f_joined, bp, f_matrix, f_inner, f_result>>
    /\ UNCHANGED <<ctlVars, pipeVars, itemVars>>

\* __fetch_prs, lines 73-77. The Manager of get_prs lives as long as its
\* dict is referred to: until get_prs returns its list, or, when get_prs has
\* raised, until the caller lets go of the GithubError. A process left behind
\* by a get_prs that raised therefore either still writes its entry and ends
\* normally, or finds the dict gone: the assignment raises, the process ends
\* by the exception and nothing is written.
FetchWrite(r) ==
    /\ fp[r].pc = "write"
    /\ \/ /\ f_matrix' = DictSet(f_matrix, r, DictValues(f_inner[r]))
          /\ fp' = [fp EXCEPT ![r].pc = "done"]
       \/ /\ f_pc = "raised"
          /\ fp' = [fp EXCEPT ![r].pc = "failed"]
          /\ UNCHANGED f_matrix
    /\ UNCHANGED <<f_up, f_pc, f_started, f_joined, bp, f_inner, f_result>>
    /\ UNCHANGED <<ctlVars, pipeVars, itemVars>>

\* __build_pr of the k-th pull request of repository r: the record is built
\* (the reviews are requested) and assigned to its key, or the process ends
\* by an exception.
BuildPr(r, k) ==
    /\ f_up.pulls[r].ok /\ k \in DOMAIN FetchBody(r)
    /\ LET pr == FetchBody(r)[k]
       IN  /\ bp[pr.url] = "run"
           /\ IF pr.wellformed /\ f_up.reviews[pr.url].ok
              THEN /\ f_inner' = [f_inner EXCEPT ![r] =
                                    DictSet(@, pr.url, build_pr(pr, f_up.reviews[pr.url].body))]
                   /\ bp' = [bp EXCEPT ![pr.url] = "done"]
              ELSE /\ bp' = [bp EXCEPT ![pr.url] = "failed"]
                   /\ UNCHANGED f_inner
    /\ UNCHANGED <<f_up, f_pc, f_started, f_joined, fp, f_matrix, f_result>>
    /\ UNCHANGED <<ctlVars, pipeVars, itemVars>>

FetchNext ==
    \/ MainList
    \/ MainStart
    \/ MainJoin
    \/ MainFlatten
    \/ \E r \in RepoUrls : FetchGet(r)
    \/ \E r \in RepoUrls : FetchStart(r)
    \/ \E r \in RepoUrls : FetchJoin(r)
    \/ \E r \in RepoUrls : FetchWrite(r)
    \/ \E r \in RepoUrls, k \in 1..2 : BuildPr(r, k)

SpecFetch == FetchInit /\ [][FetchNext]_vars

\* Every process that can take a step is scheduled in the end.
SpecFetchFair == SpecFetch /\ WF_vars(FetchNext)

----------------------------------------------------------------------------
(* Claims about one run of get_prs (SpecFetch, SpecFetchFair) *)

\* The snapshot __fetch_prs of the controller makes of a list get_prs returned
SnapshotOf(prs) == order_filter_prs(prs, PipeUser)

\* The list get_prs returns when every process writes in the order in which
\* it was started
InStartOrder ==
    get_prs(NoRepos, [repos |-> f_up.repos, spawn_fail |-> f_up.spawn_fail,
                      pulls |-> f_up.pulls, reviews |-> f_up.reviews,
                      outer |-> <<1, 2>>,
                      inner |-> [r \in RepoUrls |-> <<1, 2>>]]).result

\* C13: the snapshot made of the list get_prs returns is the same for every
\* order in which the processes complete, also when records agree in
\* created_at and in being the user's or not.
C13_ArrivalOrderIrrelevant ==
    f_pc = "done" => SnapshotOf(f_result) = SnapshotOf(InStartOrder)

\* Every request of the run is answered with a well-formed payload, and no
\* process is refused.
AllSucceed ==
    /\ f_up.repos.ok /\ f_up.repos.body.kind = "list" /\ f_up.spawn_fail = 0
    /\ \A i \in DOMAIN FetchRepos :
         /\ f_up.pulls[FetchRepos[i]].ok
         /\ \A k \in DOMAIN FetchBody(FetchRepos[i]) :
              /\ FetchBody(FetchRepos[i])[k].wellformed
              /\ f_up.reviews[FetchBody(FetchRepos[i])[k].url].ok

\* The payloads the listed repositories returned, as (repository, position)
Payloads ==
    {<<r, k>> : r \in {FetchRepos[i] : i \in DOMAIN FetchRepos}, k \in 1..2}
        \cap {rk \in RepoUrls \X (1..2) : rk[2] \in DOMAIN FetchBody(rk[1])}

\* C14: when every request succeeds, the list get_prs returns holds exactly
\* one record for each payload of each listed repository, under every
\* interleaving.
C14_NoLostUpdates ==
    (f_pc = "done" /\ AllSucceed) =>
      /\ Len(f_result) = Cardinality(Payloads)
      /\ \A rk \in Payloads :
           LET pr == FetchBody(rk[1])[rk[2]]
           IN  Cardinality({i \in DOMAIN f_result : f_result[i].url = pr.html_url}) = 1
      /\ \A i \in DOMAIN f_result :
           \E rk \in Payloads :
             LET pr == FetchBody(rk[1])[rk[2]]
             IN  f_result[i] = build_pr(pr, f_up.reviews[pr.url].body)

\* C14 witness: three records from two repositories, written by three
\* processes, the second repository's entry before the first's.
C14_Witness ==
    /\ f_pc = "done" /\ AllSucceed
    /\ Len(f_result) = 3
    /\ f_result[1].url \in {"h3", "h5"}

\* C15: get_prs reads result_matrix only after it has started every
\* __fetch_prs process and each of them has ended; __fetch_prs reads its
\* result_matrix and writes its entry only after it has started every
\* __build_pr process and each of them has ended.
C15_BarrierPerLevel ==
    /\ f_pc \in {"flatten", "done"} =>
         /\ f_started = Len(FetchRepos)
         /\ \A i \in DOMAIN FetchRepos : fp[FetchRepos[i]].pc \in {"done", "failed"}
    /\ \A r \in RepoUrls :
         fp[r].pc \in {"write", "done"} =>
           /\ fp[r].started = Len(FetchBody(r))
           /\ \A k \in DOMAIN FetchBody(r) : bp[FetchBody(r)[k].url] \in {"done", "failed"}

\* C15 witness: get_prs is about to read; one __fetch_prs process has ended
\* by an exception, the other has written the record of its __build_pr
\* process.
C15_Witness ==
    /\ f_pc = "flatten"
    /\ fp["r1"].pc = "failed"
    /\ fp["r2"].pc = "done" /\ Len(f_inner["r2"]) = 1

\* C18: every run of get_prs ends, by returning a list or by raising
\* GithubError.
C18_RefreshTerminates == <>(f_pc \in {"done", "raised"})

\* C18 witness: get_prs has returned although a __fetch_prs process and a
\* __build_pr process ended by an exception.
C18_Witness ==
    /\ f_pc = "done"
    /\ \E r \in RepoUrls : fp[r].pc = "failed"
    /\ \E u \in FetchPrUrls : bp[u] = "failed"

----------------------------------------------------------------------------
(* Claims about the client, the reconfiguration and the selection (Spec) *)

\* C16: once the repository listing has returned a payload on a client, no
\* later call on that client requests it again.
C16_ListedOnce ==
    [][ (IsCall /\ call.has_payload) => ~call'.listing ]_vars

\* C16 witness: a refresh that did not request the listing and returned
\* records of the stored repositories.
C16_Witness ==
    /\ call.any /\ call.fetches = 1 /\ ~call.listing /\ call.has_payload
    /\ ~call.raised /\ call.open # <<>>

\* C17: after a call that failed with GithubError, a call whose refresh meets
\* no failing request, no malformed payload and no refused process succeeds
\* and stores its snapshot.
C17_RecoveryAfterFailure ==
    (prev.any /\ prev.raised /\ call.fetches = 1
        /\ fetch.failed \subseteq {"repos_stored"})
      => /\ ~call.raised
         /\ Entry.set /\ Entry.at = call.done

\* C19: while no call has been made on the controller installed by the last
\* preferences event or preferences-update event, it holds no entry and no
\* repository list; the first call on it fetches, listing included, however
\* young the entry of the controller it replaced.
C19_ResetOnReconfiguration ==
    /\ [](( subscribed /\ ~call.any) =>
            /\ github_controller.exists
            /\ Entry = NoRequest /\ github_controller.repos = NoRepos)
    /\ [][ (IsCall /\ ~call.any) => (call'.fetches = 1 /\ call'.listing) ]_vars

\* C19 witness: the first call on a controller that replaced one holding an
\* entry younger than 60 s has fetched and listed.
C19_Witness ==
    /\ call.any /\ call.first
    /\ call.replaced.set /\ call.at - call.replaced.at < 60
    /\ call.fetches = 1 /\ call.listing /\ ~call.raised

\* The type of the list an item was built for, as its icon shows it
ItemType(it) ==
    IF it.icon \in {GITHUB_APPROVED_LOGO, GITHUB_USER_APPROVED_LOGO} THEN "APPROVED"
    ELSE "OPEN"

\* C20: when a multiselect event is handled for an item of the list on
\* screen, the type read from MULTISELECT is the type of that list, and the
\* list built in answer holds no record whose URL is selected.
C20_MultiselectConsistency ==
    [][ (IsCall /\ call'.predicate = "not_selected") =>
          /\ \A k \in DOMAIN rendered :
                rendered[k].on_alt_enter.event = "MULTISELECT"
                   => call'.pr_type = ItemType(rendered[k])
          /\ \A k \in DOMAIN call'.items :
                call'.items[k].on_alt_enter.event = "MULTISELECT"
                   => call'.items[k].on_enter.urls[1] \notin Range(multiselect_urls') ]_vars

====
